---- MODULE Spec2Model ----
(***************************************************************************)
(* Model of the panza lexer (tokens.go): the token kind registry, the      *)
(* matching engine (findToken / isToken), the generic identifier scanner   *)
(* (findIdenToken) and the per-line tokenizer (TokenizeLine).              *)
(*                                                                         *)
(* A Go string is a sequence of one-character strings; the Go slice        *)
(* line[a:b] is Slice(line, a, b) and is only legal when                   *)
(* 0 <= a <= b <= len(line): an illegal slice is a run-time panic and is   *)
(* modelled by the control state "panic".  findToken is recursive and Go   *)
(* does not eliminate tail calls, so every call is one step of the model   *)
(* and a recursion deeper than MaxDepth ends in the control state          *)
(* "overflow" (the goroutine stack is exhausted and the process aborts).   *)
(* Candidate id lists are sets: the code only uses their length and, when  *)
(* the length is one, their single element, so the order in which Go       *)
(* iterates the map does not show.                                         *)
(***************************************************************************)
EXTENDS Integers, Sequences, FiniteSets, TLC

\* ---------------------------------------------------------------- bounds
MaxLen == 3       \* longest line enumerated over Alphabet
MaxDecl == 2      \* most kinds read from the declaration file
MaxDepth == 12    \* recursion depth at which the stack is taken as exhausted

\* ------------------------------------------------------------ Go strings
Slice(s, a, b) == SubSeq(s, a + 1, b)
SliceOK(s, a, b) == 0 <= a /\ a <= b /\ b <= Len(s)
IsPrefixOf(p, s) == Len(p) <= Len(s) /\ SubSeq(s, 1, Len(p)) = p
Min(a, b) == IF a <= b THEN a ELSE b

Alphabet == {"a", "=", " ", "&"}

RECURSIVE StringsUpTo(_)
StringsUpTo(n) ==
  IF n = 0 THEN {<<>>}
  ELSE LET shorter == StringsUpTo(n - 1)
       IN  shorter \cup {Append(s, c) : s \in {t \in shorter : Len(t) = n - 1}, c \in Alphabet}

\* Lines of the scenarios, longer than MaxLen.
ScenarioLines ==
  { <<"a", " ", "=", "=", " ", "b">>,
    <<"a", "b", "c", "=", "=">>,
    <<"a", "b", "c", "=", "=", "d">>,
    <<"a", "b", "c", "=", "=", " ", "d">>,
    <<"&", "T", "Y", "P", "E">>,
    <<"&", "O", "B", "J">>,
    <<"T", "Y", "P", "E">> }

Lines == StringsUpTo(MaxLen) \cup ScenarioLines
LineNos == {1}

\* Kinds the declaration file may declare, as (name, sequence) pairs.
DeclKinds ==
  { [name |-> "ASSIGN", sig |-> <<"=">>],
    [name |-> "EQUALS", sig |-> <<"=", "=">>],
    [name |-> "ALPHA",  sig |-> <<"a">>] }

SigAssign == <<"=">>
SigEquals == <<"=", "=">>
SigSpace  == <<" ">>
SigIden   == <<"&", "I", "D", "E", "N">>
SigType   == <<"&", "T", "Y", "P", "E">>
SigObj    == <<"&", "O", "B", "J">>

VARIABLES
  tokenKinds,                  \* the registry: id -> TokenKind
  tokenKindId,                 \* next id newKind hands out
  tokenKindSignatureMaxSize,   \* largest signature length registered
  pc,                          \* control state
  line, lineNo, pos, tokens,   \* TokenizeLine: arguments and locals
  fline, step, ids, depth,     \* findToken: arguments of the current call
  id, sig, prov,               \* findToken's result; prov is its text before trimming
  istep, view, lookAhead,      \* findIdenToken: locals
  probe,                       \* the last call of isToken: text, window, first signature
  lastGet                      \* the last call of Get outside the tokenizer

vars == <<tokenKinds, tokenKindId, tokenKindSignatureMaxSize, pc, line, lineNo,
          pos, tokens, fline, step, ids, depth, id, sig, prov, istep, view,
          lookAhead, probe, lastGet>>

regVars  == <<tokenKinds, tokenKindId, tokenKindSignatureMaxSize>>
lineVars == <<line, lineNo>>
findVars == <<fline, step, ids, depth>>
idenVars == <<istep, view, lookAhead>>

\* ----------------------------------------------------- signature algebra
Contains(ts, ots) ==
  \E i \in 0..Len(ts) : i + Len(ots) <= Len(ts) /\ Slice(ts, i, i + Len(ots)) = ots

Compare(ts, ots) == ts = ots

\* ---------------------------------------------------------- the registry
\* The zero value of TokenKind, which a Go map yields for a missing key.
ZeroKind == [Id |-> 0, Name |-> "", Signature |-> <<>>]

Ids == DOMAIN tokenKinds

\* Get with a missing key answered by the first kind of the table.
GetFirst(i) == IF i \in DOMAIN tokenKinds THEN tokenKinds[i] ELSE tokenKinds[0]

Get(i) == IF i \in DOMAIN tokenKinds THEN tokenKinds[i] ELSE ZeroKind

Find(s, cand) ==
  LET among == IF cand = {} THEN Ids ELSE cand
  IN  {i \in among : Contains(Get(i).Signature, s)}

\* FindEx comparing with Contains, as Find does.
FindExLoose(s, cand) ==
  LET among == IF cand = {} THEN Ids ELSE cand
  IN  {i \in among : Contains(tokenKinds[i].Signature, s)}

FindEx(s, cand) ==
  LET among == IF cand = {} THEN Ids ELSE cand
  IN  {i \in among : Compare(Get(i).Signature, s)}

\* newKind and Add on an explicit registry state r = [kinds, next, max].
Add(r, name, s) ==
  [kinds |-> r.kinds @@ (r.next :> [Id |-> r.next, Name |-> name, Signature |-> s]),
   next  |-> r.next + 1,
   max   |-> IF Len(s) > r.max THEN Len(s) ELSE r.max]

Reserved ==
  << [name |-> "WHTSPACE", sig |-> SigSpace],
     [name |-> "GENIDEN",  sig |-> SigIden],
     [name |-> "GENTYPE",  sig |-> SigType],
     [name |-> "GENOBJ",   sig |-> SigObj],
     [name |-> "NEWLINE",  sig |-> <<"\n">>],
     [name |-> "CRETURN",  sig |-> <<"\r">>],
     [name |-> "TABLINE",  sig |-> <<"\t">>] >>

RECURSIVE AddAll(_, _)
AddAll(r, ks) ==
  IF ks = <<>> THEN r ELSE AddAll(Add(r, Head(ks).name, Head(ks).sig), Tail(ks))

\* ------------------------------------------------------------ the windows
calcStep(l) ==
  LET s == tokenKindSignatureMaxSize
  IN  s - (s - Len(l))

calcViewOK(l, p, s) == IF p + s > Len(l) THEN SliceOK(l, p, Len(l)) ELSE SliceOK(l, p, p + s)
calcView(l, p, s) == IF p + s > Len(l) THEN Slice(l, p, Len(l)) ELSE Slice(l, p, p + s)

\* pos and step are uint64: pos - step wraps, so (pos - step) > 0 is pos # step.
calcViewR(l, p, s) == IF p # s THEN <<>> ELSE Slice(l, p - s, p)

\* The loop of isToken left before its first pass: the window never shrinks.
isTokenLoopNever(l, st, s, v, matches) == [panic |-> FALSE, sig |-> s, matches |-> matches]

\* The loop of isToken.  st is uint64: st - 1 = 0 only for st = 1, and from
\* st = 0 the decrement wraps to 2^64 - 1, where line[:st] panics.
RECURSIVE isTokenLoop(_, _, _, _, _)
isTokenLoop(l, st, s, v, matches) ==
  IF ~(matches = {} \/ v = SigSpace)
  THEN [panic |-> FALSE, sig |-> s, matches |-> matches]
  ELSE LET m2 == Find(s, matches)
       IN  IF st = 1 THEN [panic |-> FALSE, sig |-> s, matches |-> m2]
           ELSE IF st = 0 THEN [panic |-> TRUE, sig |-> s, matches |-> m2]
           ELSE isTokenLoop(l, st - 1, Slice(l, 0, st - 1), Slice(l, st - 2, st - 1), m2)

isTokenRun(l) ==
  LET st == calcStep(l)
  IN  isTokenLoop(l, st, l, calcViewR(l, st, 1), Find(l, {}))

isTokenPanics(l) == isTokenRun(l).panic

\* isToken without the closing FindEx: any surviving candidate counts.
isTokenNoExact(l) == isTokenRun(l).matches # {}

isToken(l) ==
  LET r == isTokenRun(l)
  IN  FindEx(r.sig, r.matches) # {}

Probe(l) == [text |-> l, window |-> calcStep(l), sig |-> l]
NoProbe == [text |-> <<>>, window |-> 0, sig |-> <<>>]

\* ------------------------------------------------------------------ Init
Init ==
  /\ tokenKinds = <<>>
  /\ tokenKindId = 0
  /\ tokenKindSignatureMaxSize = 0
  /\ pc = "init"
  /\ line = <<>>
  /\ lineNo = 0
  /\ pos = 0
  /\ tokens = <<>>
  /\ fline = <<>>
  /\ step = 0
  /\ ids = {}
  /\ depth = 0
  /\ id = 0
  /\ sig = <<>>
  /\ prov = <<>>
  /\ istep = 0
  /\ view = <<>>
  /\ lookAhead = <<>>
  /\ probe = NoProbe
  /\ lastGet = [called |-> FALSE, id |-> 0, outcome |-> "none", kind |-> ZeroKind]

RegState == [kinds |-> tokenKinds, next |-> tokenKindId, max |-> tokenKindSignatureMaxSize]

SetReg(r) ==
  /\ tokenKinds' = r.kinds
  /\ tokenKindId' = r.next
  /\ tokenKindSignatureMaxSize' = r.max

\* loadTokens: the seven explicit Adds.
LoadReserved ==
  /\ pc = "init"
  /\ SetReg(AddAll(RegState, Reserved))
  /\ pc' = "load"
  /\ UNCHANGED <<lineVars, pos, tokens, findVars, id, sig, prov, idenVars, probe, lastGet>>

\* loadTokens: one pass of the loop over the declaration file.
LoadDeclared ==
  /\ pc = "load"
  /\ tokenKindId < 7 + MaxDecl
  /\ \E k \in DeclKinds : SetReg(Add(RegState, k.name, k.sig))
  /\ UNCHANGED <<pc, lineVars, pos, tokens, findVars, id, sig, prov, idenVars, probe, lastGet>>

\* loadTokens: the file is exhausted.
LoadDone ==
  /\ pc = "load"
  /\ pc' = "ready"
  /\ UNCHANGED <<regVars, lineVars, pos, tokens, findVars, id, sig, prov, idenVars, probe, lastGet>>

\* ---------------------------------------------------------- TokenizeLine
\* A caller hands a line to TokenizeLine.
TokenizeLine ==
  /\ pc = "ready"
  /\ \E l \in Lines, n \in LineNos :
       /\ line' = l
       /\ lineNo' = n
  /\ pos' = 0
  /\ tokens' = <<>>
  /\ pc' = "scan"
  /\ UNCHANGED <<regVars, findVars, id, sig, prov, idenVars, probe, lastGet>>

\* The loop condition of TokenizeLine and the call findToken(line[pos:], 1).
LoopHead ==
  /\ pc = "scan"
  /\ IF pos < Len(line)
     THEN /\ fline' = Slice(line, pos, Len(line))
          /\ step' = 1
          /\ ids' = {}
          /\ depth' = 0
          /\ pc' = "find"
     ELSE /\ pc' = "done"
          /\ UNCHANGED findVars
  /\ UNCHANGED <<regVars, lineVars, pos, tokens, id, sig, prov, idenVars, probe, lastGet>>

\* ------------------------------------------------------------- findToken
curView == calcView(fline, 0, step)
curIds == IF ids = {} THEN Find(curView, ids) ELSE ids

\* findToken returns (i, s) to TokenizeLine.
Return(i, s) ==
  /\ id' = i
  /\ sig' = s
  /\ prov' = s
  /\ pc' = IF i = 1 THEN "iden" ELSE "emit"
  /\ UNCHANGED findVars

\* findToken calls itself with (fline, s, c).
Recurse(s, c) ==
  /\ IF depth >= MaxDepth
     THEN pc' = "overflow" /\ UNCHANGED findVars
     ELSE /\ step' = s
          /\ ids' = c
          /\ depth' = depth + 1
          /\ pc' = "find"
          /\ UNCHANGED fline
  /\ UNCHANGED <<id, sig, prov>>

\* case 0: no candidate, the generic id and the whole remaining line.
FindTokenNone ==
  /\ pc = "find"
  /\ curIds = {}
  /\ Return(1, fline)
  /\ UNCHANGED <<regVars, lineVars, pos, tokens, idenVars, probe, lastGet>>

\* case 1: one candidate, confirmed by FindEx or retried on a wider view.
FindTokenOne ==
  /\ pc = "find"
  /\ Cardinality(curIds) = 1
  /\ LET ex == FindEx(curView, curIds)
     IN  IF ex = {}
         THEN Recurse(step + 1, ex)
         ELSE Return(CHOOSE i \in ex : TRUE, curView)
  /\ UNCHANGED <<regVars, lineVars, pos, tokens, idenVars, probe, lastGet>>

\* several candidates: look one character ahead with isToken.
FindTokenMany ==
  /\ pc = "find"
  /\ Cardinality(curIds) > 1
  /\ IF ~calcViewOK(fline, step, 1)
     THEN /\ pc' = "panic"
          /\ UNCHANGED <<findVars, id, sig, prov, probe>>
     ELSE LET ahead == calcView(fline, step, 1)
          IN  /\ probe' = Probe(ahead)
              /\ IF isTokenPanics(ahead)
                 THEN /\ pc' = "panic"
                      /\ UNCHANGED <<findVars, id, sig, prov>>
                 ELSE IF ~isToken(ahead)
                 THEN LET ex == FindEx(curView, curIds)
                      IN  Recurse(step, IF ex = {} THEN {1} ELSE ex)
                 ELSE Recurse(step + 1, curIds)
  /\ UNCHANGED <<regVars, lineVars, pos, tokens, idenVars, lastGet>>

\* --------------------------------------------------------- findIdenToken
\* The entry of findIdenToken(prov), up to the loop.
IdenStart ==
  /\ pc = "iden"
  /\ IF Len(prov) = 1
     THEN /\ sig' = prov
          /\ pc' = "emit"
          /\ UNCHANGED idenVars
     ELSE IF ~SliceOK(prov, 0, 1)
     THEN /\ pc' = "panic"
          /\ UNCHANGED <<sig, idenVars>>
     ELSE /\ istep' = 1
          /\ view' = Slice(prov, 0, 1)
          /\ lookAhead' = Slice(prov, 1, Len(prov))
          /\ pc' = "idenloop"
          /\ UNCHANGED sig
  /\ UNCHANGED <<regVars, lineVars, pos, tokens, findVars, id, prov, probe, lastGet>>

\* One test of the loop condition of findIdenToken and, when it holds, one
\* pass of the body.
IdenLoop ==
  /\ pc = "idenloop"
  /\ probe' = Probe(lookAhead)
  /\ IF isTokenPanics(lookAhead)
     THEN /\ pc' = "panic"
          /\ UNCHANGED <<sig, idenVars>>
     ELSE IF isToken(lookAhead)
     THEN /\ sig' = view
          /\ pc' = "emit"
          /\ UNCHANGED idenVars
     ELSE /\ view' = Slice(prov, 0, istep)
          /\ lookAhead' = Slice(prov, istep, Len(prov))
          /\ istep' = istep + 1
          /\ IF istep + 1 > Len(prov)
             THEN sig' = Slice(prov, 0, istep) /\ pc' = "emit"
             ELSE pc' = "idenloop" /\ UNCHANGED sig
  /\ UNCHANGED <<regVars, lineVars, pos, tokens, findVars, id, prov, lastGet>>

\* The rest of the loop body of TokenizeLine: build the TokenObject, advance.
Emit ==
  /\ pc = "emit"
  /\ tokens' = Append(tokens, [Kind |-> Get(id), LineNo |-> lineNo,
                               Position |-> pos + 1, Symbol |-> sig])
  /\ pos' = pos + Len(sig)
  /\ pc' = "scan"
  /\ UNCHANGED <<regVars, lineVars, findVars, id, sig, prov, idenVars, probe, lastGet>>

\* A caller reads the registry by id once the line is tokenized.  Indexing
\* a Go map has no failure outcome: the result is always a value.
Lookup ==
  /\ pc = "done"
  /\ \E i \in 0..(7 + MaxDecl) :
       lastGet' = [called |-> TRUE, id |-> i, outcome |-> "value", kind |-> Get(i)]
  /\ UNCHANGED <<regVars, pc, lineVars, pos, tokens, findVars, id, sig, prov, idenVars, probe>>

Next ==
  \/ LoadReserved
  \/ LoadDeclared
  \/ LoadDone
  \/ TokenizeLine
  \/ LoopHead
  \/ FindTokenNone
  \/ FindTokenOne
  \/ FindTokenMany
  \/ IdenStart
  \/ IdenLoop
  \/ Emit
  \/ Lookup

Spec == Init /\ [][Next]_vars

\* ------------------------------------------------------------ vocabulary
Terminal == pc \in {"done", "panic", "overflow"}
Registered(s) == \E i \in Ids : tokenKinds[i].Signature = s
KindsOf(s) == {i \in Ids : tokenKinds[i].Signature = s}

RECURSIVE Concat(_)
Concat(ts) == IF ts = <<>> THEN <<>> ELSE Head(ts).Symbol \o Concat(Tail(ts))

\* ts tiles the first n characters of l.
Tiles(ts, l, n) ==
  /\ Concat(ts) = Slice(l, 0, n)
  /\ \A k \in 1..Len(ts) :
       /\ Len(ts[k].Symbol) >= 1
       /\ ts[k].Position = (IF k = 1 THEN 1 ELSE ts[k - 1].Position + Len(ts[k - 1].Symbol))
       /\ ts[k].Position - 1 + Len(ts[k].Symbol) <= Len(l)
       /\ ts[k].Symbol = Slice(l, ts[k].Position - 1, ts[k].Position - 1 + Len(ts[k].Symbol))

TypeOK ==
  /\ pc \in {"init", "load", "ready", "scan", "find", "iden", "idenloop", "emit",
             "done", "panic", "overflow"}
  /\ pos \in 0..Len(line)
  /\ depth \in 0..MaxDepth

\* ------------------------------------------------------------- the lines
LineEqEq   == <<"=", "=">>
LineEqA    == <<"=", " ", "a">>
LineAEqEqB == <<"a", " ", "=", "=", " ", "b">>
LineLong   == <<"a", "b", "c", "=", "=", " ", "d">>

Tok(k, p, s) == [Kind |-> k, LineNo |-> lineNo, Position |-> p, Symbol |-> s]

\* ================================================================ claims

\* C1: for every line and registry TokenizeLine returns, and the tokens it
\* returns tile the line: the first at Position 1, each next one where the
\* previous one ends, each Symbol the slice of the line at its Position,
\* and the Symbols concatenated give the line.
C1_ReturnsTiling == Terminal => (pc = "done" /\ Tiles(tokens, line, Len(line)))

\* Every run that does return tiles the line, and every token list built so
\* far tiles the part of the line already consumed.
TilesConsumed == (pc \in {"scan", "find", "iden", "idenloop", "emit", "done"}) => Tiles(tokens, line, pos)

\* C2: the matching engine has no failure outcome: no call of calcView,
\* calcViewR or isToken slices outside the bounds of its line.
C2_NoFailureOutcome == pc # "panic"

\* C3: findToken terminates: step never exceeds len(line) in any call and
\* the recursion never runs until the stack is exhausted.
C3_FindTokenTerminates == (pc = "find" => step <= Len(fline)) /\ pc # "overflow"

\* C4: with "=" registered and "==" registered as the signature of one kind,
\* the line "==" yields exactly one token, of that kind and with text "==",
\* and never a token "=".
C4_MaximalMunch ==
  (line = LineEqEq /\ Registered(SigAssign) /\ Cardinality(KindsOf(SigEquals)) = 1)
    => /\ \A k \in 1..Len(tokens) :
            tokens[k] = Tok(tokenKinds[CHOOSE i \in KindsOf(SigEquals) : TRUE], 1, SigEquals)
       /\ Len(tokens) <= 1
       /\ Terminal => (pc = "done" /\ Len(tokens) = 1)

C4_Witness ==
  /\ line = LineEqEq /\ Registered(SigAssign) /\ Cardinality(KindsOf(SigEquals)) = 1
  /\ pc = "done"
  /\ Len(tokens) = 1

\* C5: the generic token ends exactly where the next registered signature
\* begins: with t the provisional text and k >= 1 the smallest offset at
\* which a registered signature is a prefix of t[k:], the token is t[0:k],
\* and it is all of t when there is no such offset.
Boundaries(t) ==
  {k \in 1..(Len(t) - 1) :
     \E i \in Ids : IsPrefixOf(tokenKinds[i].Signature, Slice(t, k, Len(t)))}

Least(S) == CHOOSE k \in S : \A j \in S : k <= j

GenericRun(t) ==
  IF Boundaries(t) = {} THEN t ELSE Slice(t, 0, Least(Boundaries(t)))

C5_GenericRunBoundary == (pc = "emit" /\ id = 1) => sig = GenericRun(prov)

\* C6: with the declared kinds "=" and "==", the line "a == b" yields the
\* five tokens generic "a" @1, whitespace " " @2, "==" @3, whitespace " " @5,
\* generic "b" @6.
C6_EndToEnd ==
  (Terminal /\ line = LineAEqEqB /\ tokenKindId = 9
     /\ Registered(SigAssign) /\ Registered(SigEquals))
    => /\ pc = "done"
       /\ tokens = << Tok(Get(1), 1, <<"a">>),
                      Tok(Get(0), 2, SigSpace),
                      Tok(tokenKinds[CHOOSE i \in KindsOf(SigEquals) : TRUE], 3, SigEquals),
                      Tok(Get(0), 5, SigSpace),
                      Tok(Get(1), 6, <<"b">>) >>

\* C7: with "==" registered, the first token of the line "= a" has text "="
\* at position 1, the second is the whitespace token " " at position 2, and
\* both are emitted.
C7_PrefixBoundary ==
  (line = LineEqA /\ Registered(SigEquals))
    => /\ Len(tokens) >= 1 => (tokens[1].Symbol = SigAssign /\ tokens[1].Position = 1)
       /\ Len(tokens) >= 2 => tokens[2] = Tok(Get(0), 2, SigSpace)
       /\ Terminal => Len(tokens) >= 2

C7_Witness ==
  /\ line = LineEqA /\ Registered(SigEquals)
  /\ Len(tokens) >= 2
  /\ tokens[1].Symbol = SigAssign

\* C8 as stated: Get returns the registered kind for a registered id and
\* fails with UnknownKind for an id that was never registered.
C8_GetFailsUnknown ==
  lastGet.called =>
    IF lastGet.id \in Ids
    THEN lastGet.outcome = "value" /\ lastGet.kind = tokenKinds[lastGet.id]
    ELSE lastGet.outcome = "UnknownKind"

\* C8 amended: Get never fails; it returns the registered kind (whose Id is
\* the id asked for) for a registered id and the zero TokenKind (Id 0, empty
\* name, empty signature) for an id that was never registered.
C8_GetZeroValue ==
  lastGet.called =>
    /\ lastGet.outcome = "value"
    /\ IF lastGet.id \in Ids
       THEN lastGet.kind = tokenKinds[lastGet.id] /\ lastGet.kind.Id = lastGet.id
       ELSE lastGet.kind = ZeroKind

C8_Witness == lastGet.called /\ lastGet.id \notin Ids

\* C9 as stated: findToken never returns id 2 or 3 and no token has
\* Kind.Id 2 or 3.
C9_NeverProduced ==
  /\ pc = "emit" => id \notin {2, 3}
  /\ \A k \in 1..Len(tokens) : tokens[k].Kind.Id \notin {2, 3}

\* C9 amended: ids 2 and 3 are produced only as exact matches of their own
\* signatures: a result or token of id 2 has the text "&TYPE", one of id 3
\* the text "&OBJ".
C9_ReservedOnlyExact ==
  /\ pc = "emit" => ((id = 2 => sig = SigType) /\ (id = 3 => sig = SigObj))
  /\ \A k \in 1..Len(tokens) :
       /\ tokens[k].Kind.Id = 2 => tokens[k].Symbol = SigType
       /\ tokens[k].Kind.Id = 3 => tokens[k].Symbol = SigObj

C9_Witness == \E k \in 1..Len(tokens) : tokens[k].Kind.Id = 2 /\ tokens[k].Symbol = SigType

\* C10: in every call isToken(text) the initial window is
\* min(tokenKindSignatureMaxSize, len(text)) and no signature handed to Find
\* or FindEx is longer than tokenKindSignatureMaxSize.
C10_BoundedWindow ==
  /\ probe.window = Min(tokenKindSignatureMaxSize, Len(probe.text))
  /\ Len(probe.sig) <= tokenKindSignatureMaxSize

====
